---- MODULE Spec2Model ----
(***************************************************************************)
(* Filesort_buffer (sql/filesort_utils.cc): the budget-constrained sort    *)
(* arena of the filesort subsystem, and its sort_buffer operation.         *)
(*                                                                         *)
(* Addresses are pairs <<block id, byte offset>>; the null pointer is      *)
(* <<0, 0>>.  Sizes are byte counts, kept at their real magnitudes.        *)
(***************************************************************************)
EXTENDS Integers, Sequences, FiniteSets, TLC

\* ---------------------------------------------------------------- state
VARIABLES
  m_blocks,                   \* std::vector<unique_ptr<uchar[]>>: <<[id, size]>>
  m_record_pointers,          \* std::vector<uchar *>: the elements
  m_record_pointers_capacity, \* m_record_pointers.capacity()
  m_next_rec_ptr,
  m_current_block_end,
  m_current_block_size,
  m_space_used_other_blocks,
  m_max_size_in_bytes,
  m_max_record_length,
  m_peak_memory_used,
  rec_bytes,                  \* the key bytes the caller wrote at each record pointer
  param,                      \* the caller's Sort_param
  cost_frame,                 \* the get_merge_many_buffs_cost_fast call in progress: its locals and position
  last                        \* the last call made on the buffer and what it returned

vars == <<m_blocks, m_record_pointers, m_record_pointers_capacity,
          m_next_rec_ptr, m_current_block_end, m_current_block_size,
          m_space_used_other_blocks, m_max_size_in_bytes, m_max_record_length,
          m_peak_memory_used, rec_bytes, param, cost_frame, last>>

\* ---------------------------------------------------------------- constants of the program
PtrSize == 8
MIN_SORT_MEMORY == 32768
ShrinkThreshold == 32768

\* ---------------------------------------------------------------- bounds of the model
MaxBlockId == 3        \* blocks allocated since the arena was last empty
MaxCarved == 3         \* record slots handed out one by one
ShrinkMaxBlockId == 2  \* the same, in the run that reclaims vector capacity
MaxSortCount == 3      \* records sorted by std::sort
LongCount == 101       \* records of the long arrays (above the cutover)

Budgets == {24, 64}
RecordLengths == {8, 16}
NumRecords == {0, 2, 3}
NumRows == {0, 1, 3}

\* The run that reaches 32 KiB of unused vector capacity.
ShrinkBudgets == {70000}
ShrinkRecordLengths == {8, 16384}
ShrinkNumRecords == {4097}
ShrinkNumRows == {1, 3000}

\* ---------------------------------------------------------------- helpers
NULL == <<0, 0>>
\* What back() of an empty vector yields: not an address of any block.
WILD == <<-1, 0>>
\* The values that read can give: some address outside every block, or null.
WildPointers == {WILD, NULL}

Max(a, b) == IF a >= b THEN a ELSE b
Min(a, b) == IF a <= b THEN a ELSE b

RECURSIVE SumSizes(_)
SumSizes(bs) == IF bs = <<>> THEN 0 ELSE bs[1].size + SumSizes(Tail(bs))

BlockIds(bs) == {bs[i].id : i \in 1..Len(bs)}

\* The arena as one value: the fields of Filesort_buffer.
Arena ==
  [blocks |-> m_blocks, ptrs |-> m_record_pointers,
   cap |-> m_record_pointers_capacity, next |-> m_next_rec_ptr,
   end |-> m_current_block_end, cur_size |-> m_current_block_size,
   other |-> m_space_used_other_blocks, budget |-> m_max_size_in_bytes,
   reclen |-> m_max_record_length, peak |-> m_peak_memory_used]

\* Address handed out by my_malloc: one that no live block, record pointer
\* or cursor refers to.  Blocks are numbered in allocation order since the
\* arena was last empty.
FreshId(a) ==
  LET used == BlockIds(a.blocks) \cup {a.ptrs[i][1] : i \in 1..Len(a.ptrs)}
                \cup {a.next[1], a.end[1]}
  IN 1 + CHOOSE m \in used : \A u \in used : u <= m

\* ---------------------------------------------------------------- operations
\* Faulty variant: the mark is overwritten with the present usage.
update_peak_memory_used_overwriting(a) ==
  [a EXCEPT !.peak = a.cap * PtrSize + a.cur_size + a.other]

\* Faulty variant: the mark accumulates instead of taking the maximum.
update_peak_memory_used_adding(a) ==
  [a EXCEPT !.peak = a.peak + (a.cap * PtrSize + a.cur_size + a.other)]

update_peak_memory_used(a) ==
  [a EXCEPT !.peak = Max(a.peak, a.cap * PtrSize + a.cur_size + a.other)]

\* Faulty variant: the pointer array is clear()ed, which keeps its storage.
free_sort_buffer_keeping_capacity(a) ==
  LET b == update_peak_memory_used(a)
  IN [b EXCEPT !.ptrs = <<>>, !.blocks = <<>>, !.other = 0,
               !.next = NULL, !.end = NULL, !.cur_size = 0]

\* Faulty variant: the other-blocks counter is left as it was.
free_sort_buffer_stale_counter(a) ==
  LET b == update_peak_memory_used(a)
  IN [b EXCEPT !.ptrs = <<>>, !.cap = 0, !.blocks = <<>>,
               !.next = NULL, !.end = NULL, !.cur_size = 0]

free_sort_buffer(a) ==
  LET b == update_peak_memory_used(a)
  IN [b EXCEPT !.ptrs = <<>>, !.cap = 0, !.blocks = <<>>, !.other = 0,
               !.next = NULL, !.end = NULL, !.cur_size = 0]

\* Faulty variant: the other-blocks counter is not zeroed.
reset_keeping_counter(a) ==
  LET a1 == update_peak_memory_used(a)
      a2 == [a1 EXCEPT !.ptrs = <<>>]
      a3 == IF Len(a2.blocks) >= 2
              THEN [a2 EXCEPT !.blocks = <<a2.blocks[Len(a2.blocks)]>>]
              ELSE a2
      a4 == IF a3.reclen > a3.cur_size THEN free_sort_buffer(a3) ELSE a3
  IN IF a4.blocks = <<>> THEN a4
     ELSE [a4 EXCEPT !.next = <<a4.blocks[1].id, 0>>]

\* Faulty variant: the largest block is kept rather than the last.
reset_keeping_largest(a) ==
  LET a1 == update_peak_memory_used(a)
      a2 == [a1 EXCEPT !.ptrs = <<>>]
      a3 == IF Len(a2.blocks) >= 2
              THEN [a2 EXCEPT !.blocks =
                      <<CHOOSE b \in {a2.blocks[i] : i \in 1..Len(a2.blocks)} :
                          \A i \in 1..Len(a2.blocks) : a2.blocks[i].size <= b.size>>]
              ELSE a2
      a4 == IF a3.reclen > a3.cur_size THEN free_sort_buffer(a3) ELSE a3
      a5 == IF a4.blocks = <<>> THEN a4
            ELSE [a4 EXCEPT !.next = <<a4.blocks[1].id, 0>>]
  IN [a5 EXCEPT !.other = 0]

\* Faulty variant: the record pointers are not cleared.
reset_keeping_pointers(a) ==
  LET a1 == update_peak_memory_used(a)
      a3 == IF Len(a1.blocks) >= 2
              THEN [a1 EXCEPT !.blocks = <<a1.blocks[Len(a1.blocks)]>>]
              ELSE a1
      a4 == IF a3.reclen > a3.cur_size THEN free_sort_buffer(a3) ELSE a3
      a5 == IF a4.blocks = <<>> THEN a4
            ELSE [a4 EXCEPT !.next = <<a4.blocks[1].id, 0>>]
  IN [a5 EXCEPT !.other = 0]

\* Faulty variant: every block but the first is freed.
reset_keeping_first(a) ==
  LET a1 == update_peak_memory_used(a)
      a2 == [a1 EXCEPT !.ptrs = <<>>]
      a3 == IF Len(a2.blocks) >= 2
              THEN [a2 EXCEPT !.blocks = <<a2.blocks[1]>>]
              ELSE a2
      a4 == IF a3.reclen > a3.cur_size THEN free_sort_buffer(a3) ELSE a3
      a5 == IF a4.blocks = <<>> THEN a4
            ELSE [a4 EXCEPT !.next = <<a4.blocks[1].id, 0>>]
  IN [a5 EXCEPT !.other = 0]

reset(a) ==
  LET a1 == update_peak_memory_used(a)
      a2 == [a1 EXCEPT !.ptrs = <<>>]
      a3 == IF Len(a2.blocks) >= 2
              THEN [a2 EXCEPT !.blocks = <<a2.blocks[Len(a2.blocks)]>>]
              ELSE a2
      a4 == IF a3.reclen > a3.cur_size THEN free_sort_buffer(a3) ELSE a3
      a5 == IF a4.blocks = <<>> THEN a4
            ELSE [a4 EXCEPT !.next = <<a4.blocks[1].id, 0>>]
  IN [a5 EXCEPT !.other = 0]

\* Faulty variant: the new block takes the place of the earlier blocks.
allocate_sized_block_dropping_blocks(a, block_size, malloc_ok) ==
  IF ~malloc_ok THEN [ret |-> TRUE, a |-> a, nalloc |-> 0, retried |-> FALSE, retries |-> 0]
  ELSE LET id == FreshId(a)
       IN [ret |-> FALSE,
           a |-> [a EXCEPT !.other = a.other + a.cur_size,
                           !.cur_size = block_size,
                           !.next = <<id, 0>>,
                           !.end = <<id, block_size>>,
                           !.blocks = <<[id |-> id, size |-> block_size]>>],
           nalloc |-> 1, retried |-> FALSE, retries |-> 0]

\* Faulty variant: m_current_block_end is not moved to the new block.
allocate_sized_block_stale_end(a, block_size, malloc_ok) ==
  IF ~malloc_ok THEN [ret |-> TRUE, a |-> a, nalloc |-> 0, retried |-> FALSE, retries |-> 0]
  ELSE LET id == FreshId(a)
       IN [ret |-> FALSE,
           a |-> [a EXCEPT !.other = a.other + a.cur_size,
                           !.cur_size = block_size,
                           !.next = <<id, 0>>,
                           !.blocks = Append(a.blocks, [id |-> id, size |-> block_size])],
           nalloc |-> 1, retried |-> FALSE, retries |-> 0]

\* Faulty variant: the counter is folded before the allocation is tested.
allocate_sized_block_counting_first(a, block_size, malloc_ok) ==
  IF ~malloc_ok
    THEN [ret |-> TRUE, a |-> [a EXCEPT !.other = a.other + a.cur_size],
          nalloc |-> 0, retried |-> FALSE, retries |-> 0]
  ELSE LET id == FreshId(a)
       IN [ret |-> FALSE,
           a |-> [a EXCEPT !.other = a.other + a.cur_size,
                           !.cur_size = block_size,
                           !.next = <<id, 0>>,
                           !.end = <<id, block_size>>,
                           !.blocks = Append(a.blocks, [id |-> id, size |-> block_size])],
           nalloc |-> 1, retried |-> FALSE, retries |-> 0]

\* malloc_ok: whether my_malloc returns a block.
allocate_sized_block(a, block_size, malloc_ok) ==
  IF ~malloc_ok THEN [ret |-> TRUE, a |-> a, nalloc |-> 0, retried |-> FALSE, retries |-> 0]
  ELSE LET id == FreshId(a)
       IN [ret |-> FALSE,
           a |-> [a EXCEPT !.other = a.other + a.cur_size,
                           !.cur_size = block_size,
                           !.next = <<id, 0>>,
                           !.end = <<id, block_size>>,
                           !.blocks = Append(a.blocks, [id |-> id, size |-> block_size])],
           nalloc |-> 1, retried |-> FALSE, retries |-> 0]

AddWithSaturate(x, y) == x + y

\* Faulty variant: the blocks before the current one are left out.
space_used_current_only(a) == a.cur_size + a.cap * PtrSize

\* Faulty variant: the pointer array's reserved bytes are left out.
space_used_blocks_only(a) == a.cur_size + a.other

\* The bytes already committed: blocks plus reserved pointer capacity.
space_used(a) == a.cur_size + a.other + a.cap * PtrSize

\* Faulty variant: half of the unused capacity is kept.
shrink_to_fit_keeping_half(a, shrinks) ==
  [a EXCEPT !.cap = IF shrinks THEN Len(a.ptrs) + (a.cap - Len(a.ptrs)) \div 2
                    ELSE a.cap]

\* std::vector::shrink_to_fit, a non-binding request: the capacity becomes
\* the length (shrinks) or stays as it is.
shrink_to_fit(a, shrinks) ==
  [a EXCEPT !.cap = IF shrinks THEN Len(a.ptrs) ELSE a.cap]

\* space_left before the pointer adjustment: the budget minus the bytes
\* committed, or 0 when they already exceed it.
space_left_unadjusted(a) ==
  IF space_used(a) > a.budget THEN 0 ELSE a.budget - space_used(a)

\* Faulty variant: the pointer of a record is counted as one byte.
min_num_rows_capacity_pointer_as_byte(a) ==
  Len(a.ptrs) + space_left_unadjusted(a) \div AddWithSaturate(a.reclen, 1)

\* The pointer-array length reached if the space left were filled with
\* records of maximum length, each adding one pointer.
min_num_rows_capacity(a) ==
  Len(a.ptrs) + space_left_unadjusted(a) \div AddWithSaturate(a.reclen, PtrSize)

\* The bytes taken off space_left for the pointers still to be added: the
\* subtrahend of the unsigned 'space_left -= ...', 0 when the if is skipped.
projected_pointer_bytes(a) ==
  IF min_num_rows_capacity(a) > a.cap
    THEN (min_num_rows_capacity(a) - a.cap) * PtrSize
    ELSE 0

\* shrinks: whether shrink_to_fit() (a non-binding request) reduces capacity.
RECURSIVE allocate_block(_, _, _, _)
allocate_block(a, num_rows, shrinks, malloc_ok) ==
  LET bytes_needed == num_rows * a.reclen
      grown == IF a.cur_size = 0 THEN MIN_SORT_MEMORY
               ELSE a.cur_size + a.cur_size \div 2
      space_left == space_left_unadjusted(a) - projected_pointer_bytes(a)
      next_block_size == Min(Max(grown, bytes_needed), space_left)
      excess_bytes == (a.cap - Len(a.ptrs)) * PtrSize
      shrunk == shrink_to_fit(a, shrinks)
  IN IF next_block_size < bytes_needed
       THEN IF excess_bytes >= ShrinkThreshold
              THEN IF shrunk.cap < a.cap
                     THEN [allocate_block(shrunk, num_rows, shrinks, malloc_ok)
                             EXCEPT !.retried = TRUE, !.retries = @ + 1]
                     ELSE [ret |-> TRUE, a |-> shrunk, nalloc |-> 0, retried |-> FALSE, retries |-> 0]
              ELSE [ret |-> TRUE, a |-> a, nalloc |-> 0, retried |-> FALSE, retries |-> 0]
       ELSE allocate_sized_block(a, next_block_size, malloc_ok)

\* std::vector<uchar *>::push_back: amortised doubling when full.
push_back(a, p) ==
  [a EXCEPT !.ptrs = Append(a.ptrs, p),
            !.cap = IF Len(a.ptrs) < a.cap THEN a.cap ELSE Max(1, 2 * a.cap)]

\* Hands out the next record slot, growing by one block when the current
\* block cannot hold one more record of maximum length.
get_next_record_pointer(a, shrinks, malloc_ok) ==
  LET need == a.next[2] + a.reclen > a.end[2]
      g == IF need THEN allocate_block(a, 1, shrinks, malloc_ok)
           ELSE [ret |-> FALSE, a |-> a, nalloc |-> 0, retried |-> FALSE]
      b == g.a
  IN IF g.ret THEN g
     ELSE [g EXCEPT !.a = [push_back(b, b.next)
                             EXCEPT !.next = <<b.next[1], b.next[2] + b.reclen>>]]

\* reserve(n) on the vector.
reserve(a, n) == [a EXCEPT !.cap = Max(a.cap, n)]

\* capacity() after pushing until the vector holds sz elements.
RECURSIVE capacity_after(_, _)
capacity_after(c, sz) == IF sz <= c THEN c ELSE capacity_after(Max(1, 2 * c), sz)

\* m consecutive get_next_record_pointer() calls, none of which needs a block.
carve_in_block(a, m) ==
  LET k == Len(a.ptrs)
  IN [a EXCEPT !.ptrs = [i \in 1..(k + m) |->
                           IF i <= k THEN a.ptrs[i]
                           ELSE <<a.next[1], a.next[2] + (i - k - 1) * a.reclen>>],
               !.cap = capacity_after(a.cap, k + m),
               !.next = <<a.next[1], a.next[2] + m * a.reclen>>]

\* The while loop of preallocate_records: get_next_record_pointer() until the
\* vector holds num_records pointers.  stuck: a call returned nullptr, so
\* the loop can make no progress.
RECURSIVE carve_loop(_, _, _)
carve_loop(a, num_records, malloc_ok) ==
  IF Len(a.ptrs) >= num_records THEN [a |-> a, nalloc |-> 0, stuck |-> FALSE]
  ELSE LET fit == (a.end[2] - a.next[2]) \div a.reclen
           m == Min(num_records - Len(a.ptrs), fit)
       IN IF m > 0 THEN carve_loop(carve_in_block(a, m), num_records, malloc_ok)
          ELSE LET g == get_next_record_pointer(a, TRUE, malloc_ok)
               IN IF g.ret THEN [a |-> g.a, nalloc |-> 0, stuck |-> TRUE]
                  ELSE LET r == carve_loop(g.a, num_records, malloc_ok)
                       IN [r EXCEPT !.nalloc = @ + g.nalloc]

\* Faulty variant: the pointer bytes are left out of the budget test.
exceeds_budget_bytes_only(r, num_records) == num_records * r.reclen > r.budget

exceeds_budget(r, num_records) ==
  num_records * r.reclen + num_records * PtrSize > r.budget

\* Faulty variant: a retained block of exactly the bytes needed is replaced.
retained_block_too_small_or_exact(r, bytes_needed) ==
  r.next[2] + bytes_needed >= r.end[2]

\* Faulty variant: a retained block one record too small is still reused.
retained_block_too_small_by_two(r, bytes_needed) ==
  r.next[2] + bytes_needed > r.end[2] + r.reclen

\* m_next_rec_ptr + bytes_needed > m_current_block_end
retained_block_too_small(r, bytes_needed) == r.next[2] + bytes_needed > r.end[2]

preallocate_records(a, num_records, malloc_ok) ==
  LET r == reset(a)
      bytes_needed == num_records * r.reclen
  IN IF exceeds_budget(r, num_records)
       THEN [ret |-> TRUE, a |-> r, nalloc |-> 0, retried |-> FALSE, why |-> "budget"]
     ELSE IF retained_block_too_small(r, bytes_needed)
       THEN LET f == free_sort_buffer(r)
                s == allocate_sized_block(f, bytes_needed, malloc_ok)
                c == carve_loop(reserve(s.a, num_records), num_records, malloc_ok)
            IN IF s.ret
                 THEN [ret |-> TRUE, a |-> s.a, nalloc |-> 0, retried |-> FALSE,
                       why |-> "malloc"]
                 ELSE [ret |-> FALSE, a |-> c.a, nalloc |-> 1 + c.nalloc,
                       retried |-> FALSE, why |-> "new"]
     ELSE LET c == carve_loop(r, num_records, malloc_ok)
          IN [ret |-> FALSE, a |-> c.a, nalloc |-> c.nalloc,
              retried |-> FALSE, why |-> "reuse"]

\* Faulty variant: a budget-sized current block is not recognised, so
\* every call frees and allocates.
get_contiguous_buffer_always_fresh(a, malloc_ok, wild) ==
  LET f == free_sort_buffer(a)
      s == allocate_sized_block(f, f.budget, malloc_ok)
  IN IF s.ret
       THEN [view |-> [ptr |-> NULL, len |-> 0], a |-> s.a, nalloc |-> 0]
       ELSE [view |-> [ptr |-> <<s.a.blocks[Len(s.a.blocks)].id, 0>>,
                       len |-> s.a.budget], a |-> s.a, nalloc |-> 1]

\* Faulty variant: the old blocks are kept when the new one is allocated.
get_contiguous_buffer_keeping_blocks(a, malloc_ok, wild) ==
  IF a.cur_size # a.budget
    THEN LET s == allocate_sized_block(a, a.budget, malloc_ok)
         IN IF s.ret
              THEN [view |-> [ptr |-> NULL, len |-> 0], a |-> s.a, nalloc |-> 0]
              ELSE [view |-> [ptr |-> <<s.a.blocks[Len(s.a.blocks)].id, 0>>,
                              len |-> s.a.budget], a |-> s.a, nalloc |-> 1]
    ELSE IF a.blocks = <<>>
      THEN [view |-> [ptr |-> wild, len |-> a.budget], a |-> a, nalloc |-> 0]
      ELSE [view |-> [ptr |-> <<a.blocks[Len(a.blocks)].id, 0>>, len |-> a.budget],
            a |-> a, nalloc |-> 0]

\* Returns the view as [ptr, len].  wild: what back().get() of an empty
\* vector yields; a build that faults there instead takes no further step.
get_contiguous_buffer(a, malloc_ok, wild) ==
  IF a.cur_size # a.budget
    THEN LET f == free_sort_buffer(a)
             s == allocate_sized_block(f, f.budget, malloc_ok)
         IN IF s.ret
              THEN [view |-> [ptr |-> NULL, len |-> 0], a |-> s.a, nalloc |-> 0]
              ELSE [view |-> [ptr |-> <<s.a.blocks[Len(s.a.blocks)].id, 0>>,
                              len |-> s.a.budget], a |-> s.a, nalloc |-> 1]
    ELSE IF a.blocks = <<>>
      THEN [view |-> [ptr |-> wild, len |-> a.budget], a |-> a, nalloc |-> 0]
      ELSE [view |-> [ptr |-> <<a.blocks[Len(a.blocks)].id, 0>>, len |-> a.budget],
            a |-> a, nalloc |-> 0]

\* The executor's reconfiguration between executions: the buffer is torn
\* down when the budget shrinks, the new limits are stored and the buffer is
\* reset for the next batch.
set_max_size(a, max_size, record_length) ==
  LET b == IF max_size < a.budget THEN free_sort_buffer(a) ELSE a
  IN reset([b EXCEPT !.budget = max_size, !.reclen = record_length])

\* ---------------------------------------------------------------- comparators
\* memcmp(s1 + from - 1, s2 + from - 1, n): sign of the first differing
\* byte, as unsigned values.
RECURSIVE memcmp(_, _, _, _)
memcmp(s1, s2, from, n) ==
  IF n <= 0 THEN 0
  ELSE IF s1[from] # s2[from] THEN (IF s1[from] < s2[from] THEN -1 ELSE 1)
  ELSE memcmp(s1, s2, from + 1, n - 1)

\* Faulty variant: the bytes are compared as signed chars.
SignedChar(b) == IF b >= 128 THEN b - 256 ELSE b
RECURSIVE my_mem_compare_from_signed(_, _, _, _)
my_mem_compare_from_signed(s1, s2, i, len) ==
  IF s1[i] # s2[i] THEN SignedChar(s1[i]) < SignedChar(s2[i])
  ELSE IF len - 1 = 0 THEN FALSE
  ELSE my_mem_compare_from_signed(s1, s2, i + 1, len - 1)

\* do { if (*s1++ != *s2++) return *--s1 < *--s2; } while (--len != 0);
RECURSIVE my_mem_compare_from(_, _, _, _)
my_mem_compare_from(s1, s2, i, len) ==
  IF s1[i] # s2[i] THEN s1[i] < s2[i]
  ELSE IF len - 1 = 0 THEN FALSE
  ELSE my_mem_compare_from(s1, s2, i + 1, len - 1)

my_mem_compare(s1, s2, len) == my_mem_compare_from(s1, s2, 1, len)

\* Faulty variant: keys equal in the bytes after the fourth count as less.
my_mem_compare_longkey_or_equal(s1, s2, len) ==
  IF s1[1] # s2[1] THEN s1[1] < s2[1]
  ELSE IF s1[2] # s2[2] THEN s1[2] < s2[2]
  ELSE IF s1[3] # s2[3] THEN s1[3] < s2[3]
  ELSE IF s1[4] # s2[4] THEN s1[4] < s2[4]
  ELSE memcmp(s1, s2, 5, len - 4) <= 0

my_mem_compare_longkey(s1, s2, len) ==
  IF s1[1] # s2[1] THEN s1[1] < s2[1]
  ELSE IF s1[2] # s2[2] THEN s1[2] < s2[2]
  ELSE IF s1[3] # s2[3] THEN s1[3] < s2[3]
  ELSE IF s1[4] # s2[4] THEN s1[4] < s2[4]
  ELSE memcmp(s1, s2, 5, len - 4) < 0

\* One variable-length key part: a length byte, the data, and (with
\* use_hash) a trailing hash; shorter is smaller when one is a prefix.
cmp_varlen_keys(use_hash, s1, s2) ==
  LET len1 == s1[1]
      len2 == s2[1]
      res == memcmp(s1, s2, 2, Min(len1, len2))
  IN IF res # 0 THEN res < 0
     ELSE IF len1 # len2 THEN len1 < len2
     ELSE IF use_hash THEN memcmp(s1, s2, 2 + len1, 1) < 0
     ELSE FALSE

\* The comparator objects handed to the standard sorts.
Mem_compare(n) == [cls |-> "Mem_compare", m_size |-> n, use_hash |-> FALSE]
Mem_compare_longkey(n) == [cls |-> "Mem_compare_longkey", m_size |-> n, use_hash |-> FALSE]
Mem_compare_varlen_key(h) == [cls |-> "Mem_compare_varlen_key", m_size |-> 0, use_hash |-> h]

\* cmp(p1, p2), reading the key bytes at the two record pointers.
Less(cmp, bytes, p1, p2) ==
  IF cmp.cls = "Mem_compare" THEN my_mem_compare(bytes[p1], bytes[p2], cmp.m_size)
  ELSE IF cmp.cls = "Mem_compare_longkey"
    THEN my_mem_compare_longkey(bytes[p1], bytes[p2], cmp.m_size)
  ELSE cmp_varlen_keys(cmp.use_hash, bytes[p1], bytes[p2])

\* ---------------------------------------------------------------- the standard sorts
\* std::stable_sort is a merge sort.  Merging two ordered runs a, b: an
\* element of b goes before an element of a only if it is less than it.
merge_stable(a, b, cmp, bytes) ==
  LET n == Len(a) + Len(b)
      posA == SubSeq([i \in 1..Len(a) |->
                 i + Cardinality({j \in 1..Len(b) : Less(cmp, bytes, b[j], a[i])})],
                 1, Len(a))
      posB == SubSeq([j \in 1..Len(b) |->
                 j + Cardinality({i \in 1..Len(a) : ~Less(cmp, bytes, b[j], a[i])})],
                 1, Len(b))
  IN SubSeq([k \in 1..n |->
               IF \E i \in 1..Len(a) : posA[i] = k
                 THEN a[CHOOSE i \in 1..Len(a) : posA[i] = k]
               ELSE IF \E j \in 1..Len(b) : posB[j] = k
                 THEN b[CHOOSE j \in 1..Len(b) : posB[j] = k]
               ELSE a[1]], 1, n)

RECURSIVE merge_sort_range(_, _, _, _, _)
merge_sort_range(s, lo, hi, cmp, bytes) ==
  IF hi < lo THEN <<>>
  ELSE IF hi = lo THEN <<s[lo]>>
  ELSE LET mid == (lo + hi) \div 2
       IN merge_stable(merge_sort_range(s, lo, mid, cmp, bytes),
                       merge_sort_range(s, mid + 1, hi, cmp, bytes), cmp, bytes)

std_stable_sort(s, n, cmp, bytes) == merge_sort_range(s, 1, n, cmp, bytes)

\* std::sort promises an ordered permutation and nothing about ties: every
\* ordered arrangement of the first n elements is a possible result.
std_sort(s, n, cmp, bytes) ==
  LET elems == {s[i] : i \in 1..n}
      \* no two elements tie: the ordered arrangement is unique
      no_ties == \A i, j \in 1..n :
                    i < j => Less(cmp, bytes, s[i], s[j]) \/ Less(cmp, bytes, s[j], s[i])
  IN IF no_ties THEN {std_stable_sort(s, n, cmp, bytes)}
     ELSE {r \in [1..n -> elems] :
             /\ \A e \in elems : \E i \in 1..n : r[i] = e
             /\ \A i \in 1..(n - 1) : ~Less(cmp, bytes, r[i + 1], r[i])}

\* Faulty variant: the elements after the sorted range are dropped.
with_prefix_only(s, r) == r

\* s with its first Len(r) elements replaced by r.
with_prefix(s, r) == [i \in 1..Len(s) |-> IF i <= Len(r) THEN r[i] ELSE s[i]]

\* Faulty variant: the ref_length bytes are taken off in every case.
stable_compare_len_always_short(p) == p.max_compare_length - p.ref_length

\* Faulty variant: the ref_length bytes are not taken off.
stable_compare_len_full(p) == p.max_compare_length

\* compare_len of the stable path: without addon fields a forced stable
\* sort leaves out the ref_length bytes that were added last.
stable_compare_len(p) ==
  IF p.m_force_stable_sort /\ ~p.using_addon_fields
    THEN p.max_compare_length - p.ref_length
    ELSE p.max_compare_length

\* Faulty variant: stability demanded by the caller is not looked at.
quicksort_cutover_ignoring_force(p, count) == count <= 100

\* count <= 100 && !force_stable_sort
quicksort_cutover(p, count) == count <= 100 /\ ~p.m_force_stable_sort

\* Faulty variant: the early returns leave m_sort_algorithm as it was.
sort_algorithm_keeping_previous(p, count) ==
  IF count <= 1 THEN p.m_sort_algorithm
  ELSE IF p.max_compare_length = 0 THEN p.m_sort_algorithm
  ELSE IF p.using_varlen_keys
    THEN (IF p.m_force_stable_sort THEN "STD_STABLE" ELSE "STD_SORT")
  ELSE IF quicksort_cutover(p, count) THEN "STD_SORT"
  ELSE "STD_STABLE"

\* The value sort_buffer leaves in param->m_sort_algorithm.
sort_algorithm(p, count) ==
  IF count <= 1 THEN "NONE"
  ELSE IF p.max_compare_length = 0 THEN "NONE"
  ELSE IF p.using_varlen_keys
    THEN (IF p.m_force_stable_sort THEN "STD_STABLE" ELSE "STD_SORT")
  ELSE IF quicksort_cutover(p, count) THEN "STD_SORT"
  ELSE "STD_STABLE"

\* Faulty variant: the unrolled comparator is taken from 4 bytes on.
fixed_comparator_long_from_four(len) ==
  IF len < 4 THEN Mem_compare(len) ELSE Mem_compare_longkey(len)

\* The comparator for fixed-length keys of which len bytes are compared:
\* byte by byte below 10 bytes, unrolled from 10 bytes on.
fixed_comparator(len) ==
  IF len < 10 THEN Mem_compare(len) ELSE Mem_compare_longkey(len)

\* The comparator object sort_buffer hands to the standard sort.
comparator(p, count) ==
  IF p.using_varlen_keys THEN Mem_compare_varlen_key(p.use_hash)
  ELSE IF quicksort_cutover(p, count) THEN fixed_comparator(p.max_compare_length)
  ELSE fixed_comparator(stable_compare_len(p))

\* Every arrangement of the first n elements of s.
arrangements(s, n) ==
  LET elems == {s[i] : i \in 1..n}
  IN {r \in [1..n -> elems] : \A e \in elems : \E i \in 1..n : r[i] = e}

\* The possible outcomes [ptrs, alg] of sort_buffer(param, count).  A
\* fixed-length comparator of size 0 reads on past the keys (do ... while
\* (--len != 0) starting from 0), so what it answers is not determined by
\* the keys: the sort may leave any arrangement.
sort_buffer(ptrs, p, bytes, count) ==
  LET alg == sort_algorithm(p, count)
      cmp == comparator(p, count)
  IN IF alg = "NONE" THEN {[ptrs |-> ptrs, alg |-> alg]}
     ELSE IF cmp.cls # "Mem_compare_varlen_key" /\ cmp.m_size = 0
       THEN {[ptrs |-> with_prefix(ptrs, r), alg |-> alg] :
               r \in arrangements(ptrs, count)}
     ELSE IF alg = "STD_STABLE"
       THEN {[ptrs |-> with_prefix(ptrs, std_stable_sort(ptrs, count, cmp, bytes)),
              alg |-> alg]}
     ELSE {[ptrs |-> with_prefix(ptrs, r), alg |-> alg] :
             r \in std_sort(ptrs, count, cmp, bytes)}

\* ---------------------------------------------------------------- the state machine
EmptyArena(record_length) ==
  [blocks |-> <<>>, ptrs |-> <<>>, cap |-> 0, next |-> NULL, end |-> NULL,
   cur_size |-> 0, other |-> 0, budget |-> 0, reclen |-> record_length, peak |-> 0]

NoView == [ptr |-> NULL, len |-> 0]

\* No get_merge_many_buffs_cost_fast call is in progress.
NoFrame == [pc |-> "idle"]

NoParam ==
  [m_force_stable_sort |-> FALSE, m_sort_algorithm |-> "NONE",
   max_compare_length |-> 0, using_varlen_keys |-> FALSE,
   using_addon_fields |-> FALSE, ref_length |-> 0, use_hash |-> FALSE]

\* No comparator was constructed.
NoComparator == [cls |-> "none", m_size |-> 0, use_hash |-> FALSE]

\* freed: the blocks the call released; cmp: the comparator constructed.
Call(op, arg, r) ==
  [op |-> op, arg |-> arg, ret |-> r.ret, nalloc |-> r.nalloc,
   retried |-> r.retried, retries |-> r.retries, why |-> r.why,
   view |-> r.view, freed |-> r.freed, cmp |-> r.cmp]

Freed(before, after, nalloc) == Len(before.blocks) + nalloc - Len(after.blocks)

Plain == [ret |-> FALSE, nalloc |-> 0, retried |-> FALSE, retries |-> 0, why |-> "",
          view |-> NoView, freed |-> 0, cmp |-> NoComparator]

SetArena(a) ==
  /\ m_blocks' = a.blocks
  /\ m_record_pointers' = a.ptrs
  /\ m_record_pointers_capacity' = a.cap
  /\ m_next_rec_ptr' = a.next
  /\ m_current_block_end' = a.end
  /\ m_current_block_size' = a.cur_size
  /\ m_space_used_other_blocks' = a.other
  /\ m_max_size_in_bytes' = a.budget
  /\ m_max_record_length' = a.reclen
  /\ m_peak_memory_used' = a.peak

ArenaIs(a) ==
  /\ m_blocks = a.blocks
  /\ m_record_pointers = a.ptrs
  /\ m_record_pointers_capacity = a.cap
  /\ m_next_rec_ptr = a.next
  /\ m_current_block_end = a.end
  /\ m_current_block_size = a.cur_size
  /\ m_space_used_other_blocks = a.other
  /\ m_max_size_in_bytes = a.budget
  /\ m_max_record_length = a.reclen
  /\ m_peak_memory_used = a.peak

Init ==
  /\ \E r \in RecordLengths : ArenaIs(EmptyArena(r))
  /\ rec_bytes = <<>>
  /\ param = NoParam
  /\ cost_frame = NoFrame
  /\ last = Call("ctor", 0, Plain)

SetMaxSizeIn(BS, RS) ==
  \E b \in BS, r \in RS :
    \E a \in {set_max_size(Arena, b, r)} :
      /\ SetArena(a)
      /\ last' = Call("set_max_size", b, [Plain EXCEPT !.freed = Freed(Arena, a, 0)])
    /\ UNCHANGED <<rec_bytes, param, cost_frame>>

Reset ==
  /\ \E a \in {reset(Arena)} :
       /\ SetArena(a)
       /\ last' = Call("reset", 0, [Plain EXCEPT !.freed = Freed(Arena, a, 0)])
  /\ UNCHANGED <<rec_bytes, param, cost_frame>>

FreeSortBuffer ==
  /\ SetArena(free_sort_buffer(Arena))
  /\ last' = Call("free_sort_buffer", 0, [Plain EXCEPT !.freed = Len(m_blocks)])
  /\ UNCHANGED <<rec_bytes, param, cost_frame>>

AllocateBlockIn(NS, maxid) ==
  \E n \in NS, shrinks \in BOOLEAN, malloc_ok \in BOOLEAN :
    /\ FreshId(Arena) <= maxid
    /\ \E r \in {allocate_block(Arena, n, shrinks, malloc_ok)} :
          /\ SetArena(r.a)
          /\ last' = Call("allocate_block", n, [Plain EXCEPT !.ret = r.ret,
                            !.nalloc = r.nalloc, !.retried = r.retried,
                            !.retries = r.retries,
                            !.freed = Freed(Arena, r.a, r.nalloc)])
    /\ UNCHANGED <<rec_bytes, param, cost_frame>>

GetNextRecordPointer ==
  \E shrinks \in BOOLEAN, malloc_ok \in BOOLEAN :
    /\ FreshId(Arena) <= MaxBlockId
    /\ Len(m_record_pointers) < MaxCarved
    /\ \E r \in {get_next_record_pointer(Arena, shrinks, malloc_ok)} :
          /\ SetArena(r.a)
          /\ last' = Call("get_next_record_pointer", 0, [Plain EXCEPT !.ret = r.ret,
                            !.nalloc = r.nalloc, !.retried = r.retried,
                            !.freed = Freed(Arena, r.a, r.nalloc)])
    /\ UNCHANGED <<rec_bytes, param, cost_frame>>

PreallocateRecordsIn(NS) ==
  \E n \in NS, malloc_ok \in BOOLEAN :
    /\ \E r \in {preallocate_records(Arena, n, malloc_ok)} :
          /\ SetArena(r.a)
          /\ last' = Call("preallocate_records", n, [Plain EXCEPT !.ret = r.ret,
                            !.nalloc = r.nalloc, !.why = r.why,
                            !.freed = Freed(Arena, r.a, r.nalloc)])
    /\ UNCHANGED <<rec_bytes, param, cost_frame>>

GetContiguousBuffer ==
  \E malloc_ok \in BOOLEAN, wild \in WildPointers :
    /\ \E r \in {get_contiguous_buffer(Arena, malloc_ok, wild)} :
          /\ SetArena(r.a)
          /\ last' = Call("get_contiguous_buffer", 0, [Plain EXCEPT
                            !.ret = (r.view.ptr = NULL),
                            !.nalloc = r.nalloc, !.view = r.view,
                            !.freed = Freed(Arena, r.a, r.nalloc)])
    /\ UNCHANGED <<rec_bytes, param, cost_frame>>

SetMaxSize == SetMaxSizeIn(Budgets, RecordLengths)
AllocateBlock == AllocateBlockIn(NumRows, MaxBlockId)
PreallocateRecords == PreallocateRecordsIn(NumRecords)

Next ==
  \/ SetMaxSize
  \/ Reset
  \/ FreeSortBuffer
  \/ AllocateBlock
  \/ GetNextRecordPointer
  \/ PreallocateRecords
  \/ GetContiguousBuffer

Spec == Init /\ [][Next]_vars

\* ---- the run in which the pointer vector holds 32 KiB of unused capacity
ShrinkSetMaxSize == SetMaxSizeIn(ShrinkBudgets, ShrinkRecordLengths)
ShrinkAllocateBlock == AllocateBlockIn(ShrinkNumRows, ShrinkMaxBlockId)
ShrinkPreallocateRecords == PreallocateRecordsIn(ShrinkNumRecords)

NextShrink ==
  \/ ShrinkSetMaxSize
  \/ Reset
  \/ ShrinkAllocateBlock
  \/ ShrinkPreallocateRecords

SpecShrink == Init /\ [][NextShrink]_vars

\* ---- sorting a filled buffer
Bytes == {1, 200}

\* Fixed-length keys of len bytes: bytes 1, 5 and len vary.
FixedKey(len, x, y, z) ==
  [i \in 1..len |-> IF i = len THEN z ELSE IF i = 1 THEN x ELSE IF i = 5 THEN y ELSE 0]
KeyShapes == {<<1, 1, 1>>, <<1, 1, 200>>, <<1, 200, 1>>, <<200, 1, 1>>}
FixedKeys(len) == {FixedKey(len, k[1], k[2], k[3]) : k \in KeyShapes}

\* Variable-length keys: length byte, data, hash byte.
VarKeys == {<<0, 7>>, <<1, 1, 7>>, <<1, 1, 9>>, <<2, 1, 200, 7>>}

SortParams ==
  {p \in [m_force_stable_sort : BOOLEAN, m_sort_algorithm : {"NONE", "STD_SORT"},
          max_compare_length : {0, 2, 11}, using_varlen_keys : BOOLEAN,
          using_addon_fields : BOOLEAN, ref_length : {1}, use_hash : BOOLEAN] :
     /\ p.use_hash => p.using_varlen_keys
     /\ p.using_varlen_keys => p.max_compare_length = 2 /\ ~p.using_addon_fields
     /\ p.m_sort_algorithm # "NONE" => p.max_compare_length = 0}

KeysFor(p) == IF p.using_varlen_keys THEN VarKeys ELSE FixedKeys(p.max_compare_length)

SortRecordLength == 16

\* The buffer after set_max_size and preallocate_records(n).
FilledArena(n) ==
  preallocate_records(
    set_max_size(EmptyArena(SortRecordLength), n * (SortRecordLength + PtrSize),
                 SortRecordLength), n, TRUE).a

\* A long array: LongCount keys in a fixed interleaving.
Pick(S, k) == IF k % 2 = 0 THEN CHOOSE x \in S : \A y \in S : x <= y
              ELSE CHOOSE x \in S : \A y \in S : x >= y
LongKey(p, i) ==
  LET k == (i * 3) % 8
  IN IF p.using_varlen_keys
       THEN (IF (k \div 2) % 2 = 0 THEN <<1, Pick(Bytes, k)>> ELSE <<0>>)
              \o <<Pick({7, 9}, k \div 4)>>
       ELSE FixedKey(p.max_compare_length, Pick(Bytes, k), Pick(Bytes, k \div 2),
                     Pick(Bytes, k \div 4))
LongArray(p) == [i \in 1..LongCount |-> LongKey(p, i)]

\* An array at the cutover count whose fixed-length keys are pairwise different.
CutoverCount == 100
DistinctArray(p) ==
  [i \in 1..CutoverCount |->
     FixedKey(p.max_compare_length, i % 3, i % 5, (i * 7) % 101)]
KeyArrays(p) ==
  [1..MaxSortCount -> KeysFor(p)] \cup {LongArray(p)}
    \cup (IF ~p.using_varlen_keys /\ p.max_compare_length > 0
            THEN {DistinctArray(p)} ELSE {})
\* A long array is sorted only where the outcome is one arrangement.
OneOutcome(count) ==
  \/ sort_algorithm(param, count) # "STD_SORT"
  \/ /\ ~param.using_varlen_keys
     /\ \A i, j \in 1..count :
           i < j => rec_bytes[m_record_pointers[i]] # rec_bytes[m_record_pointers[j]]

InitSort ==
  \E p \in SortParams :
    \E keys \in KeyArrays(p) :
      \E a \in {FilledArena(Len(keys))} :
         /\ ArenaIs(a)
         /\ param = p
         /\ cost_frame = NoFrame
         /\ rec_bytes = [q \in {a.ptrs[i] : i \in 1..Len(a.ptrs)} |->
                           keys[CHOOSE i \in 1..Len(a.ptrs) : a.ptrs[i] = q]]
         /\ last = Call("preallocate_records", Len(keys), Plain)

SortBuffer ==
  \E count \in (0..MaxSortCount) \cup {CutoverCount, LongCount} :
    /\ count <= Len(m_record_pointers)
    /\ (count <= MaxSortCount \/ OneOutcome(count)) = TRUE
    /\ \E r \in sort_buffer(m_record_pointers, param, rec_bytes, count) :
         /\ m_record_pointers' = r.ptrs
         /\ param' = [param EXCEPT !.m_sort_algorithm = r.alg]
    /\ last' = Call("sort_buffer", count,
                     [Plain EXCEPT !.cmp = IF sort_algorithm(param, count) = "NONE"
                                             THEN NoComparator
                                             ELSE comparator(param, count)])
    /\ UNCHANGED <<m_blocks, m_record_pointers_capacity, m_next_rec_ptr,
                   m_current_block_end, m_current_block_size,
                   m_space_used_other_blocks, m_max_size_in_bytes,
                   m_max_record_length, m_peak_memory_used, rec_bytes,
                   cost_frame>>

NextSort == SortBuffer

SpecSort == InitSort /\ [][NextSort]_vars

\* ---- sort_buffer on fixed-length keys, over the compare lengths and the
\* ref_length values up to the compare length
MaxCompareLen == 12

\* ref_length above max_compare_length is left out: compare_len is a uint
\* and max_compare_length - ref_length would then wrap to a value near 2^32.
LenParams ==
  {p \in [m_force_stable_sort : BOOLEAN, m_sort_algorithm : {"NONE"},
          max_compare_length : 0..MaxCompareLen, using_varlen_keys : {FALSE},
          using_addon_fields : BOOLEAN, ref_length : 0..MaxCompareLen,
          use_hash : {FALSE}] :
     p.ref_length <= p.max_compare_length}

\* A long array of pairwise different keys (103 is prime).
LongDistinctArray(p) ==
  [i \in 1..LongCount |->
     FixedKey(p.max_compare_length, i % 3, i % 5, (i * 7) % 103)]

\* Two records, or a long array where stability is not forced.
LenKeyArrays(p) ==
  [1..2 -> FixedKeys(p.max_compare_length)]
    \cup (IF ~p.m_force_stable_sort /\ ~p.using_addon_fields /\ p.ref_length = 0
                /\ p.max_compare_length >= 1
            THEN {LongDistinctArray(p)} ELSE {})

InitSortLen ==
  \E p \in LenParams :
    \E keys \in LenKeyArrays(p) :
      \E a \in {FilledArena(Len(keys))} :
         /\ ArenaIs(a)
         /\ param = p
         /\ cost_frame = NoFrame
         /\ rec_bytes = [q \in {a.ptrs[i] : i \in 1..Len(a.ptrs)} |->
                           keys[CHOOSE i \in 1..Len(a.ptrs) : a.ptrs[i] = q]]
         /\ last = Call("preallocate_records", Len(keys), Plain)

SpecSortLen == InitSortLen /\ [][NextSort]_vars

\* ================================================================ properties
\* Bytes committed: all owned blocks plus the pointer array's reserved capacity.
Committed == SumSizes(m_blocks) + m_record_pointers_capacity * PtrSize

\* C1 (as stated): in every state the bytes of all owned blocks plus the
\* pointer array's reserved capacity times the pointer size are at most the
\* memory budget.
C1_WithinBudget == Committed <= m_max_size_in_bytes

\* C1 (amended): a successful allocate_block never raises the committed
\* bytes above the larger of the budget and what was committed before the
\* call; a preallocate_records that allocates a block leaves the committed
\* bytes within the budget; a get_contiguous_buffer that allocates leaves
\* exactly the budget committed.
C1_GrowthWithinBudget ==
  [][/\ (last'.op = "allocate_block" /\ ~last'.ret)
          => Committed' <= Max(m_max_size_in_bytes, Committed)
     /\ (last'.op = "preallocate_records" /\ ~last'.ret /\ last'.nalloc >= 1)
          => Committed' <= m_max_size_in_bytes'
     /\ (last'.op = "get_contiguous_buffer" /\ last'.nalloc >= 1)
          => Committed' = m_max_size_in_bytes']_vars

C1_Witness ==
  /\ last.op = "allocate_block" /\ ~last.ret /\ last.nalloc = 1
  /\ Len(m_blocks) >= 2
  /\ m_record_pointers_capacity > 0
  /\ m_blocks[Len(m_blocks)].size > 0
  /\ Committed <= m_max_size_in_bytes

\* C2: every entry of the record pointer array points inside a block the
\* arena currently owns.
PointsInside(q, blocks) ==
  \E i \in 1..Len(blocks) :
     blocks[i].id = q[1] /\ 0 <= q[2] /\ q[2] < blocks[i].size

C2_PointersInOwnedBlocks ==
  \A i \in 1..Len(m_record_pointers) : PointsInside(m_record_pointers[i], m_blocks)

C2_Witness ==
  /\ Len(m_blocks) = 2
  /\ Len(m_record_pointers) >= 2
  /\ m_record_pointers[1][1] = m_blocks[1].id
  /\ m_record_pointers[Len(m_record_pointers)][1] = m_blocks[2].id
  /\ m_blocks[1].id >= 2

\* C3 (as stated): when allocate_block returns failure, the blocks, the
\* cursor, the size counters and the pointer array's contents and reserved
\* capacity are all as before the call.
C3_FailureChangesNothing ==
  [][(last'.op = "allocate_block" /\ last'.ret) => Arena' = Arena]_vars

\* C3 (amended): when allocate_block returns failure, no block has been
\* allocated and everything is as before the call except the pointer
\* array's reserved capacity, which the shrink-and-retry path may have
\* reduced to the array's length.
C3_FailureChangesOnlyCapacity ==
  [][(last'.op = "allocate_block" /\ last'.ret) =>
        /\ [Arena' EXCEPT !.cap = m_record_pointers_capacity] = Arena
        /\ \/ m_record_pointers_capacity' = m_record_pointers_capacity
           \/ /\ m_record_pointers_capacity' = Len(m_record_pointers)
              /\ (m_record_pointers_capacity - Len(m_record_pointers)) * PtrSize
                   >= ShrinkThreshold]_vars

C3_Witness ==
  /\ last.op = "allocate_block" /\ last.ret /\ last.retried
  /\ m_record_pointers_capacity = Len(m_record_pointers)
  /\ Len(m_blocks) >= 1

\* C4 (as stated): when preallocate_records or get_contiguous_buffer fails
\* because the host allocation fails, the arena is as before the call (for
\* preallocate_records: as its leading reset alone leaves it).
C4_MallocFailureChangesNothing ==
  [][/\ (last'.op = "preallocate_records" /\ last'.ret /\ last'.why = "malloc")
          => Arena' = reset(Arena)
     /\ (last'.op = "get_contiguous_buffer" /\ last'.ret)
          => Arena' = Arena]_vars

\* C4 (amended): when preallocate_records or get_contiguous_buffer fails
\* because the host allocation fails, the arena is left empty: every block,
\* a retained one included, and the pointer array's storage are freed, and
\* the cursors and size counters are zero.
IsEmpty(a) ==
  /\ a.blocks = <<>> /\ a.ptrs = <<>> /\ a.cap = 0
  /\ a.next = NULL /\ a.end = NULL /\ a.cur_size = 0 /\ a.other = 0

C4_MallocFailureEmptiesArena ==
  [][/\ (last'.op = "preallocate_records" /\ last'.ret /\ last'.why = "malloc")
          => IsEmpty(Arena')
     /\ (last'.op = "get_contiguous_buffer" /\ last'.ret)
          => IsEmpty(Arena')]_vars

C4_Witness ==
  /\ last.op \in {"preallocate_records", "get_contiguous_buffer"}
  /\ last.ret
  /\ last.op = "preallocate_records" => last.why = "malloc"
  /\ last.freed >= 1
  /\ m_blocks = <<>>

\* C5: a preallocate_records whose records and pointers exceed the budget
\* returns failure and leaves the arena exactly as reset alone leaves it.
C5_BudgetFailureIsReset ==
  [][(/\ last'.op = "preallocate_records"
      /\ last'.arg * m_max_record_length + last'.arg * PtrSize > m_max_size_in_bytes)
        => (last'.ret /\ Arena' = reset(Arena))]_vars

C5_Witness ==
  /\ last.op = "preallocate_records" /\ last.ret /\ last.why = "budget"
  /\ Len(m_blocks) = 1
  /\ last.freed >= 1

\* C6: a preallocate_records(n) whose records and pointers fit the budget,
\* with the host allocation succeeding, returns success and leaves exactly n
\* record pointers, pairwise distinct, each the start of a slot of
\* m_max_record_length bytes inside the current block, the slots pairwise
\* disjoint; it allocates at most one block, of exactly n record lengths,
\* and none when the retained block is reused.
SlotInCurrentBlock(q) ==
  /\ m_blocks' # <<>>
  /\ q[1] = m_blocks'[Len(m_blocks')].id
  /\ q[2] >= 0
  /\ q[2] + m_max_record_length' <= m_blocks'[Len(m_blocks')].size

SlotsDisjoint(q1, q2) ==
  \/ q1[1] # q2[1]
  \/ q1[2] + m_max_record_length' <= q2[2]
  \/ q2[2] + m_max_record_length' <= q1[2]

C6_PreallocateCarvesSlots ==
  [][(/\ last'.op = "preallocate_records"
      /\ last'.arg * m_max_record_length + last'.arg * PtrSize <= m_max_size_in_bytes
      /\ last'.why # "malloc")
        => /\ ~last'.ret
           /\ Len(m_record_pointers') = last'.arg
           /\ \A i \in 1..last'.arg : SlotInCurrentBlock(m_record_pointers'[i])
           /\ \A i, j \in 1..last'.arg :
                 i # j => /\ m_record_pointers'[i] # m_record_pointers'[j]
                          /\ SlotsDisjoint(m_record_pointers'[i], m_record_pointers'[j])
           /\ last'.nalloc <= 1
           /\ last'.why = "reuse" => last'.nalloc = 0
           /\ last'.nalloc = 1 =>
                 /\ Len(m_blocks') = 1
                 /\ m_blocks'[1].size = last'.arg * m_max_record_length]_vars

C6_Witness ==
  /\ last.op = "preallocate_records" /\ ~last.ret /\ last.why = "reuse"
  /\ last.arg >= 2
  /\ Len(m_record_pointers) = last.arg
  /\ Len(m_blocks) = 1
  /\ m_blocks[1].size > last.arg * m_max_record_length

\* C7: after reset the pointer array is empty and the other-blocks counter
\* is zero, and either no block is owned and both cursors and the current
\* block size are zero, or exactly one block is owned: the last block of the
\* state before, at least m_max_record_length bytes long, with the next-free
\* cursor at its start and the end cursor at its start plus its size.
C7_ResetPostcondition ==
  [][last'.op = "reset" =>
       /\ m_record_pointers' = <<>>
       /\ m_space_used_other_blocks' = 0
       /\ \/ /\ m_blocks' = <<>>
             /\ m_next_rec_ptr' = NULL
             /\ m_current_block_end' = NULL
             /\ m_current_block_size' = 0
          \/ /\ Len(m_blocks') = 1
             /\ m_blocks # <<>>
             /\ m_blocks'[1] = m_blocks[Len(m_blocks)]
             /\ m_blocks'[1].size >= m_max_record_length'
             /\ m_current_block_size' = m_blocks'[1].size
             /\ m_next_rec_ptr' = <<m_blocks'[1].id, 0>>
             /\ m_current_block_end' = <<m_blocks'[1].id, m_blocks'[1].size>>]_vars

C7_Witness ==
  /\ last.op = "reset" /\ last.freed >= 1
  /\ Len(m_blocks) = 1
  /\ m_blocks[1].id >= 2
  /\ m_next_rec_ptr = <<m_blocks[1].id, 0>>

\* C8: a reset that directly follows a reset leaves the whole arena (blocks,
\* cursors, size counters, pointer array length and reserved capacity, peak
\* mark) as the first reset left it.
C8_ResetIdempotent ==
  [][(last.op = "reset" /\ last'.op = "reset") => Arena' = Arena]_vars

C8_Witness ==
  /\ last.op = "reset" /\ last.freed >= 1
  /\ Len(m_blocks) = 1
  /\ m_record_pointers_capacity > 0
  /\ m_peak_memory_used > Committed

\* The number of key bytes a sort of fixed-length keys compares.
ComparedLen(p) ==
  IF p.m_force_stable_sort /\ ~p.using_addon_fields
    THEN p.max_compare_length - p.ref_length
    ELSE p.max_compare_length

\* Two keys agree on every byte the sort compares.
SameCompared(p, k1, k2) ==
  IF p.using_varlen_keys
    THEN /\ k1[1] = k2[1]
         /\ \A i \in 2..(1 + k1[1]) : k1[i] = k2[i]
         /\ p.use_hash => k1[2 + k1[1]] = k2[2 + k2[1]]
    ELSE \A i \in 1..ComparedLen(p) : k1[i] = k2[i]

PosIn(s, q) == CHOOSE i \in 1..Len(s) : s[i] = q

\* C9: in a sort_buffer call with m_force_stable_sort, any two of the first
\* count records whose compared key bytes are equal keep the relative order
\* they had before the call.
C9_StableKeepsOrder ==
  [][(last'.op = "sort_buffer" /\ param.m_force_stable_sort) =>
       \A i, j \in 1..last'.arg :
          (i < j /\ SameCompared(param, rec_bytes[m_record_pointers[i]],
                                 rec_bytes[m_record_pointers[j]]))
            => PosIn(m_record_pointers', m_record_pointers[i])
                 < PosIn(m_record_pointers', m_record_pointers[j])]_vars

\* Keys b,a,a at slots 1,2,3, the two a differing in the trailing ref byte:
\* the result is slot 2, slot 3, slot 1.
C9_Witness ==
  /\ last.op = "sort_buffer" /\ last.arg = 3
  /\ param.m_force_stable_sort /\ ~param.using_varlen_keys
  /\ ~param.using_addon_fields
  /\ param.m_sort_algorithm = "STD_STABLE"
  /\ m_record_pointers[1][2] = SortRecordLength
  /\ m_record_pointers[2][2] = 2 * SortRecordLength
  /\ m_record_pointers[3][2] = 0
  /\ SameCompared(param, rec_bytes[m_record_pointers[1]], rec_bytes[m_record_pointers[2]])
  /\ rec_bytes[m_record_pointers[1]] # rec_bytes[m_record_pointers[2]]
  /\ ~SameCompared(param, rec_bytes[m_record_pointers[2]], rec_bytes[m_record_pointers[3]])

\* k1 is lexicographically smaller than k2 on the first n bytes, bytes taken
\* as unsigned.
LexLess(k1, k2, n) ==
  \E i \in 1..n : k1[i] < k2[i] /\ \A j \in 1..(i - 1) : k1[j] = k2[j]

\* C10: for fixed-length keys, count >= 2 and max_compare_length >= 1, after
\* sort_buffer the first count entries of the pointer array are a
\* permutation of the entries before, and no entry's compared key bytes are
\* lexicographically smaller than those of the entry before it.
C10_SortedPermutation ==
  [][(/\ last'.op = "sort_buffer"
      /\ ~param.using_varlen_keys
      /\ last'.arg >= 2
      /\ param.max_compare_length >= 1)
        => /\ Len(m_record_pointers') = Len(m_record_pointers)
           /\ {m_record_pointers'[i] : i \in 1..last'.arg}
                = {m_record_pointers[i] : i \in 1..last'.arg}
           /\ \A i, j \in 1..last'.arg :
                 i # j => m_record_pointers'[i] # m_record_pointers'[j]
           /\ \A i \in 1..(last'.arg - 1) :
                 ~LexLess(rec_bytes[m_record_pointers'[i + 1]],
                          rec_bytes[m_record_pointers'[i]], ComparedLen(param))]_vars

C10_Witness ==
  /\ last.op = "sort_buffer" /\ last.arg >= 2
  /\ ~param.using_varlen_keys
  /\ param.m_sort_algorithm = "STD_SORT"
  /\ m_record_pointers[1][2] > m_record_pointers[2][2]
  /\ LexLess(rec_bytes[m_record_pointers[1]], rec_bytes[m_record_pointers[2]],
             param.max_compare_length)

\* C11: a sort_buffer call with count <= 1 or max_compare_length = 0 leaves
\* the record pointer array as it was, entry for entry, and records the
\* algorithm NONE whatever m_sort_algorithm held before.
C11_NoSortLeavesArray ==
  [][(/\ last'.op = "sort_buffer"
      /\ (last'.arg <= 1 \/ param.max_compare_length = 0))
        => /\ m_record_pointers' = m_record_pointers
           /\ param'.m_sort_algorithm = "NONE"]_vars

\* A call with count <= 1 on an array an earlier call had reordered.
C11_Witness ==
  /\ last.op = "sort_buffer" /\ last.arg <= 1
  /\ param.max_compare_length > 0
  /\ param.m_sort_algorithm = "NONE"
  /\ Len(m_record_pointers) >= 2
  /\ m_record_pointers[1][2] > m_record_pointers[2][2]

\* The algorithm the decision policy names.
ExpectedAlgorithm(count, mcl, varlen, force) ==
  IF count <= 1 \/ mcl = 0 THEN "NONE"
  ELSE IF varlen THEN (IF force THEN "STD_STABLE" ELSE "STD_SORT")
  ELSE IF count <= 100 /\ ~force THEN "STD_SORT"
  ELSE "STD_STABLE"

\* C12: the algorithm sort_buffer records depends on count,
\* max_compare_length, the variable-length flag and m_force_stable_sort
\* only: NONE iff count <= 1 or max_compare_length = 0; else for
\* variable-length keys stable iff forced; else for fixed-length keys
\* non-stable iff count <= 100 and not forced, stable otherwise.
C12_AlgorithmRecorded ==
  [][last'.op = "sort_buffer" =>
       param'.m_sort_algorithm =
          ExpectedAlgorithm(last'.arg, param.max_compare_length,
                            param.using_varlen_keys, param.m_force_stable_sort)]_vars

C12_Witness ==
  /\ last.op = "sort_buffer" /\ last.arg = CutoverCount
  /\ ~param.using_varlen_keys /\ ~param.m_force_stable_sort
  /\ param.m_sort_algorithm = "STD_SORT"
  /\ m_record_pointers[1][2] # 0

\* C13: for fixed-length keys, a forced stable sort without addon fields
\* compares the first max_compare_length - ref_length bytes only, so records
\* agreeing on those bytes keep their order whatever their trailing bytes;
\* without forcing, or with addon fields, all max_compare_length bytes are
\* compared.
C13_RefBytesLeftOut ==
  [][(/\ last'.op = "sort_buffer"
      /\ ~param.using_varlen_keys
      /\ last'.arg >= 2
      /\ param.max_compare_length >= 1)
        => LET shortened == param.m_force_stable_sort /\ ~param.using_addon_fields
               n == IF shortened THEN param.max_compare_length - param.ref_length
                    ELSE param.max_compare_length
           IN /\ \A i \in 1..(last'.arg - 1) :
                    ~LexLess(rec_bytes[m_record_pointers'[i + 1]],
                             rec_bytes[m_record_pointers'[i]], n)
              /\ shortened =>
                   \A i, j \in 1..last'.arg :
                      (/\ i < j
                       /\ \A k \in 1..n : rec_bytes[m_record_pointers[i]][k]
                                            = rec_bytes[m_record_pointers[j]][k])
                        => PosIn(m_record_pointers', m_record_pointers[i])
                             < PosIn(m_record_pointers', m_record_pointers[j])]_vars

\* Two records with 11-byte keys that agree on the first 10 bytes, the
\* first with the larger trailing byte, left in their order.
C13_Witness ==
  /\ last.op = "sort_buffer" /\ last.arg = 2
  /\ param.m_force_stable_sort /\ ~param.using_addon_fields
  /\ ~param.using_varlen_keys
  /\ param.max_compare_length = 11
  /\ param.m_sort_algorithm = "STD_STABLE"
  /\ m_record_pointers[1][2] < m_record_pointers[2][2]
  /\ LexLess(rec_bytes[m_record_pointers[2]], rec_bytes[m_record_pointers[1]], 11)
  /\ ~LexLess(rec_bytes[m_record_pointers[2]], rec_bytes[m_record_pointers[1]], 10)

\* The view over the whole of the arena's last block.
ViewOverLastBlock(blocks, budget) ==
  [ptr |-> <<blocks[Len(blocks)].id, 0>>, len |-> budget]

C16_FreeEmptiesArena ==
  [][last'.op = "free_sort_buffer" =>
       /\ m_blocks' = <<>>
       /\ m_record_pointers' = <<>>
       /\ m_record_pointers_capacity' = 0
       /\ m_space_used_other_blocks' = 0
       /\ m_current_block_size' = 0
       /\ m_next_rec_ptr' = NULL
       /\ m_current_block_end' = NULL]_vars

C16_Witness ==
  /\ last.op = "free_sort_buffer" /\ last.freed >= 2
  /\ IsEmpty(Arena)
  /\ m_peak_memory_used > m_max_size_in_bytes

\* C17: the peak-memory mark never decreases, and right after every reset
\* and every free_sort_buffer it is at least the pointer array's reserved
\* bytes plus the current block size plus the other-blocks counter as they
\* were on entry to the call.
C17_PeakMonotonic ==
  [][/\ m_peak_memory_used' >= m_peak_memory_used
     /\ last'.op \in {"reset", "free_sort_buffer"}
          => m_peak_memory_used' >=
               m_record_pointers_capacity * PtrSize + m_current_block_size
                 + m_space_used_other_blocks]_vars

C17_Witness ==
  /\ last.op = "reset" /\ last.freed >= 2
  /\ m_blocks = <<>>
  /\ m_record_pointers_capacity = 0
  /\ m_peak_memory_used > m_max_size_in_bytes

\* C18: in every state the end cursor is the start of the last allocated
\* block plus the current block size, and the next-free cursor lies between
\* that block's start and the end cursor; with no block owned both cursors
\* are null and the current block size is zero.
C18_CursorInCurrentBlock ==
  IF m_blocks = <<>>
    THEN m_next_rec_ptr = NULL /\ m_current_block_end = NULL
           /\ m_current_block_size = 0
    ELSE LET cur == m_blocks[Len(m_blocks)]
         IN /\ m_current_block_size = cur.size
            /\ m_current_block_end = <<cur.id, m_current_block_size>>
            /\ m_next_rec_ptr[1] = cur.id
            /\ 0 <= m_next_rec_ptr[2]
            /\ m_next_rec_ptr[2] <= m_current_block_end[2]

C18_Witness ==
  /\ Len(m_blocks) >= 2
  /\ m_next_rec_ptr[1] = m_blocks[Len(m_blocks)].id
  /\ m_next_rec_ptr[2] > 0
  /\ m_next_rec_ptr[2] < m_current_block_end[2]

\* ---------------------------------------------------------------------
\* The cost model: get_merge_cost and get_merge_many_buffs_cost_fast.
\* A double is a fixed-point number, an integer count of 1/Fixed units.
\* ---------------------------------------------------------------------

Fixed == 4096

IO_SIZE == 4096

MERGEBUFF == 7

MERGEBUFF2 == 15

MaxCostRows == 110

\* std::log2(n) for n in 1..16, rounded to the nearest 1/Fixed.
log2(n) ==
  <<0, 4096, 6492, 8192, 9511, 10588, 11499, 12288,
    12984, 13607, 14170, 14684, 15157, 15595, 16003, 16384>>[n]

\* log(1.0 + n) for n in 0..8, rounded to the nearest 1/Fixed.
log1p(n) ==
  <<0, 2839, 4500, 5678, 6592, 7339, 7970, 8517, 9000>>[n + 1]

\* One cost-table function: unit * x, plus step once x reaches from.
\* It is non-decreasing in x; with step = 0 it is proportional to x.
CostFunction(f, x) ==
  f.unit * x + (IF x >= f.from * Fixed THEN f.step * Fixed ELSE 0)

io_block_read_cost(cost_model, io_ops) == CostFunction(cost_model.io, io_ops)

key_compare_cost(cost_model, n) == CostFunction(cost_model.cmp, n)

Proportional(u) == [unit |-> u, from |-> 0, step |-> 0]

StepAt(t) == [unit |-> 0, from |-> t, step |-> 1]

CostTables ==
  {[io |-> Proportional(1), cmp |-> Proportional(1)],
   [io |-> Proportional(1), cmp |-> Proportional(0)],
   [io |-> Proportional(0), cmp |-> Proportional(1)],
   [io |-> Proportional(0), cmp |-> StepAt(28)],
   [io |-> StepAt(1), cmp |-> Proportional(0)]}

IsProportional(cost_model) ==
  cost_model.io.step = 0 /\ cost_model.cmp.step = 0

KeysPerBuffer == {1, 2, 3}

ElemSizes == {1, 100, 4096}

get_merge_cost(num_elements, num_buffers, elem_size, cost_model) ==
  LET io_ops == (num_elements * elem_size * Fixed) \div IO_SIZE
      io_cost == io_block_read_cost(cost_model, io_ops)
      cpu_cost == key_compare_cost(cost_model, num_elements * log2(num_buffers))
  IN 2 * io_cost + cpu_cost

\* The while loop of get_merge_many_buffs_cost_fast, one pass per call.
RECURSIVE merge_many_buff_passes(_, _, _, _, _, _)
merge_many_buff_passes(num_buffers, num_keys_per_buffer, last_n_elems, total_cost, elem_size, cost_model) ==
  IF num_buffers >= MERGEBUFF2
    THEN LET loop_limit == num_buffers - (MERGEBUFF * 3) \div 2
             num_merge_calls == 1 + loop_limit \div MERGEBUFF
             num_remaining_buffs == num_buffers - num_merge_calls * MERGEBUFF
             last2 == last_n_elems + num_remaining_buffs * num_keys_per_buffer
             cost2 == total_cost
                        + num_merge_calls
                            * get_merge_cost(num_keys_per_buffer * MERGEBUFF,
                                             MERGEBUFF, elem_size, cost_model)
                        + get_merge_cost(last2, 1 + num_remaining_buffs,
                                         elem_size, cost_model)
         IN merge_many_buff_passes(num_merge_calls,
                                   num_keys_per_buffer * MERGEBUFF,
                                   last2, cost2, elem_size, cost_model)
    ELSE [num_buffers |-> num_buffers,
          num_keys_per_buffer |-> num_keys_per_buffer,
          last_n_elems |-> last_n_elems,
          total_cost |-> total_cost]

get_merge_many_buffs_cost_fast(num_rows, num_keys_per_buffer, elem_size, cost_model) ==
  LET num_buffers == num_rows \div num_keys_per_buffer
      last_n_elems == num_rows % num_keys_per_buffer
      sort_cost ==
        num_buffers
          * key_compare_cost(cost_model,
                             num_keys_per_buffer * log1p(num_keys_per_buffer))
        + key_compare_cost(cost_model, last_n_elems * log1p(last_n_elems))
      w == merge_many_buff_passes(num_buffers, num_keys_per_buffer,
                                  last_n_elems, sort_cost, elem_size,
                                  cost_model)
      last3 == w.last_n_elems + w.num_keys_per_buffer * w.num_buffers
  IN w.total_cost
       + get_merge_cost(last3, 1 + w.num_buffers, elem_size, cost_model)

CostCall(num_rows, num_keys_per_buffer, elem_size, cost_model) ==
  Call("get_merge_many_buffs_cost_fast",
       [num_rows |-> num_rows, num_keys_per_buffer |-> num_keys_per_buffer,
        elem_size |-> elem_size, cost_model |-> cost_model],
       [Plain EXCEPT !.ret =
          get_merge_many_buffs_cost_fast(num_rows, num_keys_per_buffer,
                                         elem_size, cost_model)])

InitCost ==
  /\ ArenaIs(EmptyArena(0))
  /\ param = NoParam
  /\ cost_frame = NoFrame
  /\ rec_bytes = <<>>
  /\ \E num_rows \in 0..MaxCostRows, num_keys_per_buffer \in KeysPerBuffer,
        elem_size \in ElemSizes, cost_model \in CostTables :
       last = CostCall(num_rows, num_keys_per_buffer, elem_size, cost_model)

\* The estimate is asked again for at least as many rows, all else equal.
GetMergeManyBuffsCostFast ==
  /\ \E num_rows \in 0..MaxCostRows :
       /\ num_rows >= last.arg.num_rows
       /\ last' = CostCall(num_rows, last.arg.num_keys_per_buffer,
                           last.arg.elem_size, last.arg.cost_model)
  /\ UNCHANGED <<m_blocks, m_record_pointers, m_record_pointers_capacity,
                 m_next_rec_ptr, m_current_block_end, m_current_block_size,
                 m_space_used_other_blocks, m_max_size_in_bytes,
                 m_max_record_length, m_peak_memory_used, rec_bytes, param,
                 cost_frame>>

NextCost == GetMergeManyBuffsCostFast

SpecCost == InitCost /\ [][NextCost]_vars

\* C19: get_merge_many_buffs_cost_fast is non-decreasing in num_rows for a
\* fixed num_keys_per_buffer >= 1 and elem_size, whatever non-decreasing
\* functions the cost table holds: asked again for at least as many rows,
\* the estimate is at least what it was.
C19_CostNonDecreasing ==
  [][last'.ret >= last.ret]_vars

\* The same for cost tables whose two functions are proportional.
CostNonDecreasingForProportionalTables ==
  [][IsProportional(last.arg.cost_model) => last'.ret >= last.ret]_vars

\* The geometric growth step: the minimum block size for the first block,
\* otherwise the current block size plus half of it.
GrownSize ==
  IF m_current_block_size = 0 THEN MIN_SORT_MEMORY
  ELSE m_current_block_size + m_current_block_size \div 2

\* The budget left (never below zero) for a pointer array reserving cap
\* entries: the budget minus block bytes, reserved pointer bytes and the
\* pointers that filling the rest with maximum-size records would add.
RemainingBudget(cap) ==
  LET used == m_current_block_size + m_space_used_other_blocks + cap * PtrSize
      left0 == IF used > m_max_size_in_bytes THEN 0 ELSE m_max_size_in_bytes - used
      rows == Len(m_record_pointers) + left0 \div (m_max_record_length + PtrSize)
  IN IF rows > cap THEN left0 - (rows - cap) * PtrSize ELSE left0

\* The block size allocate_block settles on for the arena as it is:
\* max(grown size, bytes needed), clamped to the space left in the budget.
ClampedTarget(num_rows) ==
  Min(Max(GrownSize, num_rows * m_max_record_length),
      RemainingBudget(m_record_pointers_capacity))

\* C20: one call of allocate_block re-runs its computation at most once.
\* It does so only when the clamped target is below num_rows times the
\* record length, the pointer array holds at least 32768 bytes of unused
\* capacity and shrink_to_fit has reduced the capacity; the re-run then
\* finds no unused capacity, so it does not re-run again.
C20_AtMostOneRetry ==
  [][last'.op = "allocate_block" =>
       /\ last'.retries <= 1
       /\ last'.retried <=> last'.retries = 1
       /\ last'.retries = 1 =>
            /\ ClampedTarget(last'.arg) < last'.arg * m_max_record_length
            /\ (m_record_pointers_capacity - Len(m_record_pointers)) * PtrSize
                 >= ShrinkThreshold
            /\ m_record_pointers_capacity' < m_record_pointers_capacity
            /\ m_record_pointers_capacity' = Len(m_record_pointers')]_vars

C20_Witness ==
  /\ last.op = "allocate_block" /\ last.retries = 1
  /\ ~last.ret /\ last.nalloc = 1
  /\ m_record_pointers_capacity = Len(m_record_pointers)

\* C21: whenever allocate_block(num_rows) succeeds, the new current block's
\* size is min(max(g, num_rows * record length), remaining), g being the
\* grown size and remaining the budget left for the pointer capacity the
\* call ends with; so the block holds num_rows records and fits in what
\* remains of the budget.
C21_NewBlockSize ==
  [][(last'.op = "allocate_block" /\ ~last'.ret) =>
       LET needed == last'.arg * m_max_record_length
           remaining == RemainingBudget(m_record_pointers_capacity')
       IN /\ Len(m_blocks') = Len(m_blocks) + 1
          /\ m_blocks'[Len(m_blocks')].size = m_current_block_size'
          /\ m_current_block_size' = Min(Max(GrownSize, needed), remaining)
          /\ m_current_block_size' >= needed
          /\ m_current_block_size' <= remaining]_vars

C21_Witness ==
  /\ last.op = "allocate_block" /\ ~last.ret /\ last.arg > 0
  /\ Len(m_blocks) >= 2
  /\ m_current_block_size = last.arg * m_max_record_length
  /\ m_current_block_size > m_blocks[Len(m_blocks) - 1].size
      + m_blocks[Len(m_blocks) - 1].size \div 2

\* C22: allocate_sized_block(size), seen where allocate_block reaches it
\* without a retry. When the host allocation fails the call reports
\* failure and the arena is as it was. When it succeeds, the previous
\* current block size is added to the other-blocks counter, the current
\* block size becomes size, the new block is appended after the blocks
\* already owned, the next-free cursor is the new block's start and the end
\* cursor its start plus size; the pointer array and the earlier blocks
\* are unchanged.
C22_AllocateSizedBlock ==
  [][(/\ last'.op = "allocate_block" /\ last'.retries = 0
      /\ ClampedTarget(last'.arg) >= last'.arg * m_max_record_length) =>
       LET size == ClampedTarget(last'.arg)
       IN IF last'.ret
            THEN Arena' = Arena
            ELSE /\ m_space_used_other_blocks'
                      = m_space_used_other_blocks + m_current_block_size
                 /\ m_current_block_size' = size
                 /\ Len(m_blocks') = Len(m_blocks) + 1
                 /\ SubSeq(m_blocks', 1, Len(m_blocks)) = m_blocks
                 /\ m_blocks'[Len(m_blocks')].size = size
                 /\ m_blocks'[Len(m_blocks')].id \notin BlockIds(m_blocks)
                 /\ m_next_rec_ptr' = <<m_blocks'[Len(m_blocks')].id, 0>>
                 /\ m_current_block_end' = <<m_blocks'[Len(m_blocks')].id, size>>
                 /\ m_record_pointers' = m_record_pointers
                 /\ m_record_pointers_capacity' = m_record_pointers_capacity
                 /\ m_max_size_in_bytes' = m_max_size_in_bytes
                 /\ m_max_record_length' = m_max_record_length
                 /\ m_peak_memory_used' = m_peak_memory_used]_vars

C22_Witness ==
  /\ last.op = "allocate_block" /\ ~last.ret /\ last.retries = 0
  /\ Len(m_blocks) >= 2
  /\ Len(m_record_pointers) >= 1
  /\ m_space_used_other_blocks > 0
  /\ m_next_rec_ptr = <<m_blocks[Len(m_blocks)].id, 0>>

\* An allocate_block call that reached allocate_sized_block and was refused.
C22_FailureReached ==
  /\ last.op = "allocate_block" /\ last.ret /\ last.retries = 0
  /\ ClampedTarget(last.arg) >= last.arg * m_max_record_length
  /\ Len(m_blocks) >= 1

\* The size of the block the leading reset() of preallocate_records keeps:
\* the last block, unless it is smaller than one record; 0 with no block.
RetainedSize ==
  IF m_blocks = <<>> THEN 0
  ELSE IF m_max_record_length > m_blocks[Len(m_blocks)].size THEN 0
  ELSE m_blocks[Len(m_blocks)].size

\* preallocate_records(num_records) passes its budget test.
WithinBudget(num_records) ==
  num_records * m_max_record_length + num_records * PtrSize <= m_max_size_in_bytes

\* C23: a preallocate_records(num_records) call that passes the budget test
\* asks for a new block if and only if the block its leading reset() keeps
\* cannot hold num_records * record length bytes. Then every block owned
\* before is freed, and a granted block is the only one owned, is exactly
\* that size, and the pointer array has num_records entries reserved by
\* reserve() rather than by growth; a refused block fails the call.
\* Otherwise the kept block is reused: nothing is allocated and only the
\* blocks reset() drops are freed.
C23_PreallocateNewBlockIff ==
  [][(last'.op = "preallocate_records" /\ WithinBudget(last'.arg)) =>
       LET bytes_needed == last'.arg * m_max_record_length
       IN IF bytes_needed > RetainedSize
            THEN /\ last'.freed = Len(m_blocks)
                 /\ \/ /\ last'.ret /\ last'.nalloc = 0 /\ m_blocks' = <<>>
                    \/ /\ ~last'.ret /\ last'.nalloc = 1
                       /\ Len(m_blocks') = 1
                       /\ m_blocks'[1].size = bytes_needed
                       /\ m_current_block_size' = bytes_needed
                       /\ m_record_pointers_capacity' = last'.arg
                       /\ Len(m_record_pointers') = last'.arg
            ELSE /\ ~last'.ret /\ last'.nalloc = 0
                 /\ m_blocks' = IF RetainedSize = 0 /\ m_blocks # <<>>
                                     /\ m_max_record_length > m_blocks[Len(m_blocks)].size
                                  THEN <<>>
                                ELSE IF m_blocks = <<>> THEN <<>>
                                ELSE <<m_blocks[Len(m_blocks)]>>
                 /\ last'.freed = Len(m_blocks) - Len(m_blocks')
                 /\ Len(m_record_pointers') = last'.arg]_vars

C23_Witness ==
  /\ last.op = "preallocate_records" /\ ~last.ret
  /\ last.nalloc = 1 /\ last.freed >= 1 /\ last.arg = 3
  /\ Len(m_blocks) = 1
  /\ m_current_block_size = 3 * m_max_record_length
  /\ m_record_pointers_capacity = 3

\* A preallocate_records call that reused the block reset() kept.
C23_ReuseReached ==
  /\ last.op = "preallocate_records" /\ ~last.ret
  /\ last.nalloc = 0 /\ last.arg >= 2
  /\ Len(m_blocks) = 1
  /\ m_current_block_size > last.arg * m_max_record_length

\* ---------------------------------------------------------------------
\* The two fixed-length comparators applied to pairs of keys.
\* ---------------------------------------------------------------------

MaxKeyLen == 11

CompareBytes == {0, 127, 128, 255}

FillBytes == {0, 255}

\* A key of len bytes: d bytes of p, then b, then t to the end.
ShapedKey(len, d, p, b, t) ==
  [i \in 1..len |-> IF i <= d THEN p ELSE IF i = d + 1 THEN b ELSE t]

\* Pairs of len-byte keys that agree on their first d bytes.
KeyPairs(len) ==
  {<<ShapedKey(len, d, p, b1, t1), ShapedKey(len, d, p, b2, t2)>> :
     d \in 0..len, p \in FillBytes, b1 \in CompareBytes, b2 \in CompareBytes,
     t1 \in FillBytes, t2 \in FillBytes}

CompareCall(op, arg, cmp) ==
  Call(op, arg, [Plain EXCEPT !.ret = Less(cmp, <<arg.s1, arg.s2>>, 1, 2)])

InitCompare ==
  /\ ArenaIs(EmptyArena(0))
  /\ param = NoParam
  /\ cost_frame = NoFrame
  /\ rec_bytes = <<>>
  /\ \E len \in 4..MaxKeyLen :
       \E pair \in KeyPairs(len) :
          last = Call("keys", [len |-> len, s1 |-> pair[1], s2 |-> pair[2]], Plain)

MemCompare ==
  /\ last' = CompareCall("Mem_compare", last.arg, Mem_compare(last.arg.len))
  /\ UNCHANGED <<m_blocks, m_record_pointers, m_record_pointers_capacity,
                 m_next_rec_ptr, m_current_block_end, m_current_block_size,
                 m_space_used_other_blocks, m_max_size_in_bytes,
                 m_max_record_length, m_peak_memory_used, rec_bytes, param,
                 cost_frame>>

MemCompareLongkey ==
  /\ last' = CompareCall("Mem_compare_longkey", last.arg,
                         Mem_compare_longkey(last.arg.len))
  /\ UNCHANGED <<m_blocks, m_record_pointers, m_record_pointers_capacity,
                 m_next_rec_ptr, m_current_block_end, m_current_block_size,
                 m_space_used_other_blocks, m_max_size_in_bytes,
                 m_max_record_length, m_peak_memory_used, rec_bytes, param,
                 cost_frame>>

NextCompare ==
  \/ MemCompare
  \/ MemCompareLongkey

SpecCompare == InitCompare /\ [][NextCompare]_vars

\* C24: for keys of 4 bytes or more, Mem_compare and Mem_compare_longkey
\* both answer true exactly when the first key is lexicographically smaller
\* over unsigned bytes, and false for equal keys; so they are the same
\* relation on either side of the 10-byte threshold.
C24_ComparatorsAreLexLess ==
  last.op \in {"Mem_compare", "Mem_compare_longkey"} =>
    /\ last.ret = LexLess(last.arg.s1, last.arg.s2, last.arg.len)
    /\ last.arg.s1 = last.arg.s2 => ~last.ret
    /\ last.ret = my_mem_compare(last.arg.s1, last.arg.s2, last.arg.len)
    /\ last.ret = my_mem_compare_longkey(last.arg.s1, last.arg.s2, last.arg.len)

C24_Witness ==
  /\ last.op = "Mem_compare_longkey" /\ last.ret
  /\ last.arg.len >= 10
  /\ \E i \in 5..last.arg.len :
       /\ last.arg.s1[i] = 127 /\ last.arg.s2[i] = 128
       /\ \A j \in 1..(i - 1) : last.arg.s1[j] = last.arg.s2[j]
       /\ i < last.arg.len /\ last.arg.s1[i + 1] > last.arg.s2[i + 1]

\* C25: sort_buffer(param, count) changes only the order of the first count
\* record pointers and param's m_sort_algorithm: the array keeps its length
\* and its entries after the first count, the first count entries are the
\* same pointers as before, and the record bytes, the blocks, the cursors,
\* the size counters, the budget and every other field of param are as
\* they were.
C25_SortFrame ==
  [][last'.op = "sort_buffer" =>
       /\ Len(m_record_pointers') = Len(m_record_pointers)
       /\ \A i \in (last'.arg + 1)..Len(m_record_pointers) :
             m_record_pointers'[i] = m_record_pointers[i]
       /\ {m_record_pointers'[i] : i \in 1..last'.arg}
            = {m_record_pointers[i] : i \in 1..last'.arg}
       /\ Cardinality({m_record_pointers'[i] : i \in 1..last'.arg}) = last'.arg
       /\ rec_bytes' = rec_bytes
       /\ [Arena' EXCEPT !.ptrs = m_record_pointers] = Arena
       /\ [param' EXCEPT !.m_sort_algorithm = param.m_sort_algorithm] = param]_vars

C25_Witness ==
  /\ last.op = "sort_buffer" /\ last.arg >= 2
  /\ last.arg < Len(m_record_pointers)
  /\ param.m_sort_algorithm # "NONE"
  /\ m_record_pointers[1][2] > m_record_pointers[2][2]
  /\ m_record_pointers[Len(m_record_pointers)][2]
       = (Len(m_record_pointers) - 1) * m_max_record_length

\* ---------------------------------------------------------------------
\* get_merge_many_buffs_cost_fast, one step per pass of its while loop.
\* ---------------------------------------------------------------------

\* Faulty variant: the loop is entered from two buffers on.
loop_continues_from_two(num_buffers) == num_buffers >= 2

\* while (num_buffers >= MERGEBUFF2)
loop_continues(num_buffers) == num_buffers >= MERGEBUFF2

loop_limit(num_buffers) == num_buffers - (MERGEBUFF * 3) \div 2

\* Faulty variant: one merge call per full group of MERGEBUFF buffers.
num_merge_calls_full_groups(num_buffers) == num_buffers \div MERGEBUFF

num_merge_calls(num_buffers) == 1 + loop_limit(num_buffers) \div MERGEBUFF

\* Faulty variant: one of the remaining buffers is forgotten.
num_remaining_buffs_less_one(num_buffers) ==
  num_buffers - num_merge_calls(num_buffers) * MERGEBUFF - 1

num_remaining_buffs(num_buffers) ==
  num_buffers - num_merge_calls(num_buffers) * MERGEBUFF

\* The locals on reaching the while loop for the first time.
EnterFrame(num_rows, num_keys_per_buffer, elem_size, cost_model) ==
  [pc |-> "while",
   num_rows |-> num_rows, elem_size |-> elem_size, cost_model |-> cost_model,
   num_buffers |-> num_rows \div num_keys_per_buffer,
   num_keys_per_buffer |-> num_keys_per_buffer,
   last_n_elems |-> num_rows % num_keys_per_buffer,
   total_cost |->
     (num_rows \div num_keys_per_buffer)
       * key_compare_cost(cost_model,
                          num_keys_per_buffer * log1p(num_keys_per_buffer))
     + key_compare_cost(cost_model,
                        (num_rows % num_keys_per_buffer)
                          * log1p(num_rows % num_keys_per_buffer)),
   loop_limit |-> 0, num_merge_calls |-> 0, num_remaining_buffs |-> 0,
   merge_cost_calls |-> <<>>, passes |-> 0]

InitMerge ==
  /\ ArenaIs(EmptyArena(0))
  /\ param = NoParam
  /\ rec_bytes = <<>>
  /\ \E num_rows \in 0..MaxCostRows, num_keys_per_buffer \in KeysPerBuffer,
        elem_size \in ElemSizes, cost_model \in CostTables :
       /\ cost_frame = EnterFrame(num_rows, num_keys_per_buffer, elem_size,
                                  cost_model)
       /\ last = Call("get_merge_many_buffs_cost_fast",
                      [num_rows |-> num_rows,
                       num_keys_per_buffer |-> num_keys_per_buffer,
                       elem_size |-> elem_size, cost_model |-> cost_model],
                      Plain)

\* One pass of the while loop.
MergePass ==
  /\ cost_frame.pc = "while"
  /\ loop_continues(cost_frame.num_buffers)
  /\ \E f \in {cost_frame} :
      \E calls \in {num_merge_calls(f.num_buffers)},
         remaining \in {num_remaining_buffs(f.num_buffers)} :
        \E elems \in {f.last_n_elems + remaining * f.num_keys_per_buffer} :
          cost_frame' =
            [f EXCEPT
               !.loop_limit = loop_limit(f.num_buffers),
               !.num_merge_calls = calls,
               !.num_remaining_buffs = remaining,
               !.total_cost =
                  @ + calls * get_merge_cost(f.num_keys_per_buffer * MERGEBUFF,
                                             MERGEBUFF, f.elem_size, f.cost_model)
                    + get_merge_cost(elems, 1 + remaining, f.elem_size,
                                     f.cost_model),
               !.last_n_elems = elems,
               !.num_buffers = calls,
               !.num_keys_per_buffer = @ * MERGEBUFF,
               !.merge_cost_calls =
                  <<[num_elements |-> f.num_keys_per_buffer * MERGEBUFF,
                     num_buffers |-> MERGEBUFF],
                    [num_elements |-> elems, num_buffers |-> 1 + remaining]>>,
               !.passes = @ + 1]
  /\ UNCHANGED <<m_blocks, m_record_pointers, m_record_pointers_capacity,
                 m_next_rec_ptr, m_current_block_end, m_current_block_size,
                 m_space_used_other_blocks, m_max_size_in_bytes,
                 m_max_record_length, m_peak_memory_used, rec_bytes, param,
                 last>>

\* The final merge_buff call after the loop, and the return.
FinalMerge ==
  /\ cost_frame.pc = "while"
  /\ ~loop_continues(cost_frame.num_buffers)
  /\ \E f \in {cost_frame} :
      \E elems \in {f.last_n_elems + f.num_keys_per_buffer * f.num_buffers} :
        \E total \in {f.total_cost
                        + get_merge_cost(elems, 1 + f.num_buffers, f.elem_size,
                                         f.cost_model)} :
          /\ cost_frame' =
               [f EXCEPT !.pc = "return",
                         !.last_n_elems = elems,
                         !.total_cost = total,
                         !.merge_cost_calls =
                            <<[num_elements |-> elems,
                               num_buffers |-> 1 + f.num_buffers]>>]
          /\ last' = [last EXCEPT !.ret = total]
  /\ UNCHANGED <<m_blocks, m_record_pointers, m_record_pointers_capacity,
                 m_next_rec_ptr, m_current_block_end, m_current_block_size,
                 m_space_used_other_blocks, m_max_size_in_bytes,
                 m_max_record_length, m_peak_memory_used, rec_bytes, param>>

NextMerge ==
  \/ MergePass
  \/ FinalMerge

SpecMerge == InitMerge /\ [][NextMerge]_vars

\* The function runs on: a call in progress takes its next step.
SpecMergeLive == InitMerge /\ [][NextMerge]_vars /\ WF_vars(NextMerge)

\* Taken pass by pass, the function returns what it returns taken whole.
StepwiseCostAgrees ==
  cost_frame.pc = "return" =>
    cost_frame.total_cost
      = get_merge_many_buffs_cost_fast(last.arg.num_rows,
                                       last.arg.num_keys_per_buffer,
                                       last.arg.elem_size, last.arg.cost_model)

\* C26: the while loop of get_merge_many_buffs_cost_fast terminates. Each
\* pass replaces num_buffers by 1 + (num_buffers - MERGEBUFF*3/2)/MERGEBUFF,
\* which is strictly smaller, and multiplies num_keys_per_buffer by
\* MERGEBUFF; the loop is left with num_buffers below MERGEBUFF2, exactly
\* one more get_merge_cost call is made, against 1 + num_buffers buffers,
\* and the function returns.
C26_MergeLoopTerminates ==
  /\ [][(cost_frame.pc = "while" /\ cost_frame'.pc = "while") =>
          /\ cost_frame'.num_buffers
               = 1 + (cost_frame.num_buffers - (MERGEBUFF * 3) \div 2) \div MERGEBUFF
          /\ cost_frame'.num_buffers < cost_frame.num_buffers
          /\ cost_frame'.num_buffers >= 1
          /\ cost_frame'.num_keys_per_buffer
               = cost_frame.num_keys_per_buffer * MERGEBUFF]_vars
  /\ [][(cost_frame.pc = "while" /\ cost_frame'.pc = "return") =>
          /\ cost_frame.num_buffers < MERGEBUFF2
          /\ Len(cost_frame'.merge_cost_calls) = 1
          /\ cost_frame'.merge_cost_calls[1].num_buffers
               = 1 + cost_frame.num_buffers]_vars
  /\ <>(cost_frame.pc = "return")

C26_Witness ==
  /\ cost_frame.pc = "return"
  /\ cost_frame.passes = 2
  /\ cost_frame.num_keys_per_buffer
       = last.arg.num_keys_per_buffer * MERGEBUFF * MERGEBUFF

C28_CountersMatchBlocks ==
  /\ m_current_block_size
       = IF m_blocks = <<>> THEN 0 ELSE m_blocks[Len(m_blocks)].size
  /\ m_space_used_other_blocks
       = IF m_blocks = <<>> THEN 0
         ELSE SumSizes(SubSeq(m_blocks, 1, Len(m_blocks) - 1))
  /\ m_current_block_size + m_space_used_other_blocks = SumSizes(m_blocks)
  /\ last.op = "reset" => Len(m_blocks) <= 1 /\ m_space_used_other_blocks = 0

C28_Witness ==
  /\ Len(m_blocks) = 3
  /\ m_space_used_other_blocks = m_blocks[1].size + m_blocks[2].size
  /\ m_space_used_other_blocks > m_current_block_size
  /\ m_current_block_size > 0

\* C29: throughout get_merge_many_buffs_cost_fast,
\* num_buffers * num_keys_per_buffer + last_n_elems equals num_rows, before
\* the loop and after every pass; so the final get_merge_cost call is
\* charged for exactly num_rows elements.
C29_RowsConserved ==
  /\ cost_frame.pc = "while" =>
       cost_frame.num_buffers * cost_frame.num_keys_per_buffer
         + cost_frame.last_n_elems = cost_frame.num_rows
  /\ cost_frame.pc = "return" =>
       /\ Len(cost_frame.merge_cost_calls) = 1
       /\ cost_frame.merge_cost_calls[1].num_elements = cost_frame.num_rows
       /\ cost_frame.last_n_elems = cost_frame.num_rows

C29_Witness ==
  /\ cost_frame.pc = "while" /\ cost_frame.passes = 1
  /\ cost_frame.num_rows % last.arg.num_keys_per_buffer > 0
  /\ cost_frame.last_n_elems > cost_frame.num_rows % last.arg.num_keys_per_buffer
  /\ cost_frame.num_buffers >= 2

\* C30: in every pass of the loop the unsigned subtractions do not wrap:
\* num_buffers - MERGEBUFF*3/2 and num_buffers - num_merge_calls*MERGEBUFF
\* are not negative; and every get_merge_cost call the function makes is
\* given at least one buffer.
C30_NoWrapInLoop ==
  /\ (cost_frame.pc # "idle" /\ cost_frame.passes >= 1) =>
       /\ cost_frame.loop_limit >= 0
       /\ cost_frame.num_merge_calls >= 1
       /\ cost_frame.num_remaining_buffs >= 0
  /\ (cost_frame.pc = "while" /\ cost_frame.num_buffers >= MERGEBUFF2) =>
       /\ cost_frame.num_buffers - (MERGEBUFF * 3) \div 2 >= 0
       /\ cost_frame.num_buffers
            - (1 + (cost_frame.num_buffers - (MERGEBUFF * 3) \div 2) \div MERGEBUFF)
                * MERGEBUFF >= 0
  /\ cost_frame.pc # "idle" =>
       \A i \in 1..Len(cost_frame.merge_cost_calls) :
          cost_frame.merge_cost_calls[i].num_buffers >= 1

C30_Witness ==
  /\ cost_frame.pc = "while" /\ cost_frame.passes = 1
  /\ cost_frame.loop_limit = MERGEBUFF2 - (MERGEBUFF * 3) \div 2
  /\ cost_frame.num_remaining_buffs = MERGEBUFF + 1
  /\ cost_frame.merge_cost_calls[2].num_buffers = MERGEBUFF + 2

\* Record lengths tried in place of the configured one.
ProbeRecordLengths == {0, 1, 7, 8, 9, 16, 4096}

\* C31: in every reachable state the pointer array's length is at most its
\* capacity, and for every maximum record length (0 included), with the
\* capacity as it is or as shrink_to_fit leaves it before the re-run, the
\* bytes allocate_block takes off space_left for the pointers still to
\* come, (min_num_rows_capacity - capacity) * sizeof(pointer), are at most
\* space_left: the unsigned subtraction does not wrap.
C31_NoWrapInSpaceLeft ==
  /\ Len(m_record_pointers) <= m_record_pointers_capacity
  /\ \A rl \in ProbeRecordLengths \cup {m_max_record_length}, shrinks \in BOOLEAN :
       LET a == shrink_to_fit([Arena EXCEPT !.reclen = rl], shrinks)
       IN /\ projected_pointer_bytes(a) >= 0
          /\ projected_pointer_bytes(a) <= space_left_unadjusted(a)

\* allocate_block has made a block cut short by the projected pointer
\* bytes, and the next call would subtract again.
C31_Witness ==
  /\ last.op = "allocate_block" /\ ~last.ret /\ last.retries = 0
  /\ Len(m_record_pointers) >= 1
  /\ m_current_block_size
       < m_max_size_in_bytes - m_space_used_other_blocks
           - m_record_pointers_capacity * PtrSize
  /\ projected_pointer_bytes(Arena) > 0

\* Forcing stability without addon fields takes ref_length bytes off the
\* compare length.
Shortened(p) == p.m_force_stable_sort /\ ~p.using_addon_fields

C32_ZeroLengthReached ==
  /\ last.op = "sort_buffer" /\ last.arg = 2
  /\ Shortened(param) /\ param.ref_length = param.max_compare_length
  /\ param.max_compare_length >= 1
  /\ last.cmp = Mem_compare(0)

\* Budgets above 0: with them an arena that owns no block has a current
\* block size different from the budget, so the view is over a block owned.
ViewOverOwnedBlockForPositiveBudget ==
  [][(last'.op = "get_contiguous_buffer" /\ m_max_size_in_bytes > 0) =>
       \/ m_current_block_size # m_max_size_in_bytes /\ last'.nalloc = 0
       \/ /\ m_blocks' # <<>>
          /\ last'.view = ViewOverLastBlock(m_blocks', m_max_size_in_bytes')]_vars

\* C33 (as stated): get_contiguous_buffer never takes back() of an empty
\* m_blocks: a call either leaves by the failure return (the sizes differed
\* and the allocation failed) or ends with at least one block owned and a
\* view over the last one, for every budget, 0 included, and every state
\* before it, the empty arena included.
C33_BackOfOwnedBlocks ==
  [][last'.op = "get_contiguous_buffer" =>
       \/ m_current_block_size # m_max_size_in_bytes /\ last'.nalloc = 0
       \/ /\ m_blocks' # <<>>
          /\ last'.view.ptr \notin WildPointers]_vars

\* The call on a newly constructed buffer: budget 0, no block, the view
\* built from back() of the empty vector.
C33_BackOfEmptyReached ==
  /\ last.op = "get_contiguous_buffer" /\ last.nalloc = 0 /\ last.freed = 0
  /\ m_blocks = <<>>
  /\ m_current_block_size = 0 /\ m_max_size_in_bytes = 0
  /\ last.view.ptr \in WildPointers

====
